---- MODULE Spec2Model ----
(***************************************************************************)
(* Model of the two HTTP microservices of the repository:                  *)
(*   - the Piper TTS service  (piper-service/service.py, config.py)        *)
(*   - the Whisper ASR service (whisper-service/service.py)                *)
(* Each coroutine is cut at its await points: the code between two awaits  *)
(* runs on the single event loop without interleaving and is one action.   *)
(* Work handed to run_in_executor runs in a worker thread that shares no   *)
(* state with the event loop; its end and the resumption of the coroutine  *)
(* that awaits it are one action.                                          *)
(***************************************************************************)
EXTENDS Integers, Sequences, FiniteSets, TLC

(***************************************************************************)
(* Bounds of the model                                                     *)
(***************************************************************************)
NumReqs == 2

Reqs == 1..NumReqs
\* process 0 is startup_event, processes 1..NumReqs are HTTP requests
Procs == 0..NumReqs

(***************************************************************************)
(* Piper TTS service: constants of the source                              *)
(***************************************************************************)
\* two entries of EXTENDED_VOICE_CATALOG
VOICE_CATALOG == {"en_US-lessac-low", "en_US-amy-low"}
\* identifiers a client may send: catalog voices and one unknown voice
Voices == VOICE_CATALOG \cup {"xx_XX-unknown"}
\* TTSRequest.voice is Optional: NoVoice is the absent / empty value
NoVoice == "None"

\* TTSRequest.text : Field(min_length=1, max_length=10000)
FieldMinLength == 1
FieldMaxLength == 10000
\* TTSRequest.speed : Field(ge=0.5, le=2.0), in tenths
SpeedGe == 5
SpeedLe == 20

\* values of PIPER_MAX_TEXT_LENGTH the model starts from (10000 is the default)
MaxTextLengthEnv == {100, FieldMaxLength}
\* text lengths a client sends: empty, above the small configured maximum
\* (and below the default one), above the field maximum
TextLens == {0, 101, FieldMaxLength + 1}
Speeds == {4, 10, 21}

ModelPath(voice_name) == <<voice_name, "onnx">>
ConfigPath(voice_name) == <<voice_name, "onnx.json">>
AllPaths == {ModelPath(v) : v \in VOICE_CATALOG} \cup {ConfigPath(v) : v \in VOICE_CATALOG}

\* how one urlretrieve call can end: the whole file written, an error before
\* the target file was created, an error after part of it was written
FetchOutcomes == {"ok", "fail_nofile", "fail_partial"}

NoHandle == [voice |-> "", by |-> -1]

VARIABLES
    \* Piper TTS service
    config,        \* ServiceConfig: default_voice, max_text_length
    voice_models,  \* the global cache: voice identifier -> handle
    files,         \* paths present under config.models_dir
    phase,         \* "off", "startup", "serving", "stopped"
    procs,         \* per coroutine: position, inputs, effects, response
    \* Whisper ASR service
    cuda_available,   \* torch.cuda.is_available()
    whisper_service,  \* the WhisperService object: device, compute_type, model
    aphase,           \* "off", "import", "loading", "serving", "crashed", "stopped"
    tmpfiles,         \* temporary audio files on disk, named by their request
    areqs,            \* per request: position, inputs, response
    asr_log,          \* messages logged by WhisperService.__init__ and _load_model
    \* timestamp rendering on its own
    tin,           \* a time in whole milliseconds; -1: none
    vtt_out,       \* _seconds_to_vtt_time of it, "" before the call
    srt_out        \* _seconds_to_srt_time of it, "" before the call

ttsVars == <<config, voice_models, files, phase, procs>>
asrVars == <<cuda_available, whisper_service, aphase, tmpfiles, areqs, asr_log>>
timeVars == <<tin, vtt_out, srt_out>>

vars == <<config, voice_models, files, phase, procs,
          cuda_available, whisper_service, aphase, tmpfiles, areqs, asr_log,
          tin, vtt_out, srt_out>>

IdleProc == [kind |-> "none", pc |-> "idle", voice |-> "", textLen |-> 0,
             hit |-> FALSE, dl |-> -1, fsops |-> FALSE, fetched |-> FALSE,
             fetchedModel |-> FALSE,
             load |-> "none", handle |-> NoHandle,
             code |-> 0, body |-> "", count |-> 0]

\* requests are numbered in arrival order
Arrives(r) ==
    /\ phase = "serving"
    /\ procs[r].pc = "idle"
    /\ \A q \in Reqs : q < r => procs[q].pc # "idle"

\* the urlretrieve outcomes that matter for a download of voice_name: a fetch
\* happens only for a catalog voice whose file is missing
ModelFetchOutcomes(voice_name, fs) ==
    IF voice_name \in VOICE_CATALOG /\ <<voice_name, "onnx">> \notin fs
    THEN FetchOutcomes ELSE {"ok"}
ConfigFetchOutcomes(voice_name, fs) ==
    IF voice_name \in VOICE_CATALOG /\ <<voice_name, "onnx.json">> \notin fs
    THEN FetchOutcomes ELSE {"ok"}

(***************************************************************************)
(* download_voice_model                                                    *)
(***************************************************************************)
\* urllib.request.urlretrieve(url, path)
urlretrieve(fs, path, outcome) ==
    [files |-> IF outcome = "fail_nofile" THEN fs ELSE fs \cup {path},
     raised |-> outcome # "ok"]

\* a cleanup that unlinks only the metadata file
CleanupPartial_configOnly(fs, model_path, config_path) == fs \ {config_path}

\* the except branch: unlink every artifact path that exists
CleanupPartial(fs, model_path, config_path) == fs \ {model_path, config_path}

\* a download without the exists() tests: it fetches both files every time
download_catalog_voice_refetches(voice_name, fs, mo, co) ==
    LET model_path == ModelPath(voice_name)
        config_path == ConfigPath(voice_name)
        m == urlretrieve(fs, model_path, mo)
        c == IF m.raised THEN m ELSE urlretrieve(m.files, config_path, co)
    IN  IF c.raised
        THEN [status |-> 500,
              files |-> CleanupPartial(c.files, model_path, config_path),
              nexists |-> 2, nfetch |-> IF m.raised THEN 1 ELSE 2,
              nunlink |-> Cardinality(c.files \cap {model_path, config_path}),
              model_fetch |-> TRUE]
        ELSE [status |-> 0, files |-> c.files, nexists |-> 0, nfetch |-> 2,
              nunlink |-> 0, model_fetch |-> TRUE]

\* download_voice_model after the catalog check.  status 0: the paths were
\* returned; 500: HTTPException raised.  nexists, nfetch, nunlink count the
\* calls of Path.exists, urlretrieve and Path.unlink; model_fetch: the model
\* file was missing and its fetch was started ("Downloading model file" logged)
download_catalog_voice(voice_name, fs, mo, co) ==
    LET model_path == ModelPath(voice_name)
        config_path == ConfigPath(voice_name)
        \* "model_path.exists() and config_path.exists()" short-circuits
        n89 == IF model_path \in fs THEN 2 ELSE 1
    IN  IF model_path \in fs /\ config_path \in fs
        THEN [status |-> 0, files |-> fs, nexists |-> n89, nfetch |-> 0, nunlink |-> 0,
              model_fetch |-> FALSE]
        ELSE
          LET m == IF model_path \notin fs
                   THEN urlretrieve(fs, model_path, mo)
                   ELSE [files |-> fs, raised |-> FALSE]
              c == IF m.raised THEN m
                   ELSE IF config_path \notin m.files
                        THEN urlretrieve(m.files, config_path, co)
                        ELSE [files |-> m.files, raised |-> FALSE]
              nf == (IF model_path \notin fs THEN 1 ELSE 0)
                    + (IF ~m.raised /\ config_path \notin m.files THEN 1 ELSE 0)
              ne == n89 + 1 + (IF m.raised THEN 0 ELSE 1)
          IN  IF c.raised
              THEN [status |-> 500,
                    files |-> CleanupPartial(c.files, model_path, config_path),
                    nexists |-> ne + 2, nfetch |-> nf,
                    nunlink |-> Cardinality(c.files \cap {model_path, config_path}),
                    model_fetch |-> model_path \notin fs]
              ELSE [status |-> 0, files |-> c.files, nexists |-> ne,
                    nfetch |-> nf, nunlink |-> 0,
                    model_fetch |-> model_path \notin fs]

\* a download that looks at the disk without consulting the catalog first
download_voice_model_noCatalogCheck(voice_name, fs, mo, co) ==
    download_catalog_voice(voice_name, fs, mo, co)

\* status 404: HTTPException raised by the catalog check
download_voice_model(voice_name, fs, mo, co) ==
    IF voice_name \notin VOICE_CATALOG
    THEN [status |-> 404, files |-> fs, nexists |-> 0, nfetch |-> 0, nunlink |-> 0,
          model_fetch |-> FALSE]
    ELSE download_catalog_voice(voice_name, fs, mo, co)

(***************************************************************************)
(* load_voice_model, up to its first suspension                            *)
(***************************************************************************)
\* a lookup that never finds the key
CacheHit_never(cache, voice_name) == FALSE

\* "if voice_name in voice_models"
CacheHit(cache, voice_name) == voice_name \in DOMAIN cache

\* an assignment that rebuilds the cache with the new entry alone
CacheInsert_aloneInCache(cache, voice_name, voice_model) ==
    [v \in {voice_name} |-> voice_model]

\* "voice_models[voice_name] = voice_model" after the executor returned
CacheInsert(cache, voice_name, voice_model) ==
    [v \in DOMAIN cache \cup {voice_name} |->
        IF v = voice_name THEN voice_model ELSE cache[v]]

\* the handle PiperVoice.load returns to process p
VoiceModel(voice_name, p) == [voice |-> voice_name, by |-> p]

\* a load_voice_model that registers the handle before the load has run
load_voice_model_cacheEarly(p, voice_name, cache, fs, mo, co) ==
    IF CacheHit(cache, voice_name)
    THEN [outcome |-> "hit", handle |-> cache[voice_name], cache |-> cache,
          files |-> fs, dl |-> -1, nexists |-> 0, nfetch |-> 0, nunlink |-> 0,
          model_fetch |-> FALSE]
    ELSE
      LET d == download_voice_model(voice_name, fs, mo, co)
      IN  [outcome |-> IF d.status # 0 THEN "raise" ELSE "await",
           handle |-> NoHandle,
           cache |-> IF d.status # 0 THEN cache
                     ELSE CacheInsert(cache, voice_name, VoiceModel(voice_name, p)),
           files |-> d.files, dl |-> d.status,
           nexists |-> d.nexists, nfetch |-> d.nfetch, nunlink |-> d.nunlink,
           model_fetch |-> d.model_fetch]

\* load_voice_model called by process p, up to the await.  outcome "hit": the
\* cached handle is returned; "raise": HTTPException(500) from the except
\* clause; "await": run_in_executor(PiperVoice.load) was started
load_voice_model(p, voice_name, cache, fs, mo, co) ==
    IF CacheHit(cache, voice_name)
    THEN [outcome |-> "hit", handle |-> cache[voice_name], cache |-> cache,
          files |-> fs, dl |-> -1, nexists |-> 0, nfetch |-> 0, nunlink |-> 0,
          model_fetch |-> FALSE]
    ELSE
      LET d == download_voice_model(voice_name, fs, mo, co)
      IN  [outcome |-> IF d.status # 0 THEN "raise" ELSE "await",
           handle |-> NoHandle, cache |-> cache, files |-> d.files, dl |-> d.status,
           nexists |-> d.nexists, nfetch |-> d.nfetch, nunlink |-> d.nunlink,
           model_fetch |-> d.model_fetch]

\* pydantic validation of TTSRequest
TTSRequestValid(textLen, speed) ==
    /\ textLen >= FieldMinLength
    /\ textLen <= FieldMaxLength
    /\ speed >= SpeedGe
    /\ speed <= SpeedLe

EmptyCache == [v \in {} |-> NoHandle]

(***************************************************************************)
(* Initial state: the module-level globals after import                    *)
(***************************************************************************)
\* value of PIPER_DEFAULT_VOICE the model starts from: the default of config.py
DefaultVoiceEnv == {"en_US-lessac-low"}

InitTTS ==
    /\ config \in [default_voice : DefaultVoiceEnv, max_text_length : MaxTextLengthEnv]
    /\ voice_models = EmptyCache
    /\ files \in SUBSET AllPaths
    /\ phase = "startup"
    /\ procs = [p \in Procs |-> IdleProc]

\* the fields of a coroutine that called load_voice_model with result l
AfterLoadCall(proc, voice_name, l) ==
    [proc EXCEPT !.voice = voice_name,
                 !.hit = (l.outcome = "hit"),
                 !.dl = l.dl,
                 \* whether the call made any exists() / unlink() call, and
                 \* any urlretrieve call
                 !.fsops = (l.nexists + l.nunlink > 0),
                 !.fetched = (l.nfetch > 0),
                 !.fetchedModel = l.model_fetch,
                 !.handle = l.handle,
                 !.load = IF l.outcome = "await" THEN "running" ELSE "none"]

(***************************************************************************)
(* startup_event: pre-load the default voice                               *)
(***************************************************************************)
StartupEvent ==
    /\ phase = "startup"
    /\ procs[0].pc = "idle"
    /\ \E mo \in ModelFetchOutcomes(config.default_voice, files),
          co \in ConfigFetchOutcomes(config.default_voice, files) :
         LET l == load_voice_model(0, config.default_voice, voice_models, files, mo, co)
         IN  /\ files' = l.files
             /\ voice_models' = l.cache
             /\ procs' = [procs EXCEPT ![0] =
                    [AfterLoadCall(@, config.default_voice, l) EXCEPT
                        !.kind = "preload",
                        !.pc = IF l.outcome = "await" THEN "loading" ELSE "done"]]
             \* a failed pre-load is only logged; the service starts anyway
             /\ phase' = IF l.outcome = "await" THEN "startup" ELSE "serving"
    /\ UNCHANGED <<config, asrVars, timeVars>>

(***************************************************************************)
(* POST /tts : text_to_speech                                              *)
(***************************************************************************)
\* the request body fails validation: 422 before the handler runs
TextToSpeechInvalid(r) ==
    /\ Arrives(r)
    /\ \E textLen \in TextLens, speed \in Speeds :
         /\ ~TTSRequestValid(textLen, speed)
         /\ procs' = [procs EXCEPT ![r] =
               [@ EXCEPT !.kind = "tts", !.textLen = textLen,
                         !.pc = "done", !.code = 422]]
    /\ UNCHANGED <<config, voice_models, files, phase, asrVars, timeVars>>

\* text_to_speech up to its first suspension
TextToSpeech(r) ==
    /\ Arrives(r)
    /\ \E voice \in Voices \cup {NoVoice}, textLen \in TextLens, speed \in Speeds :
         /\ TTSRequestValid(textLen, speed)
         /\ LET voice_name == IF voice = NoVoice THEN config.default_voice ELSE voice
            IN  \E mo \in ModelFetchOutcomes(voice_name, files),
                   co \in ConfigFetchOutcomes(voice_name, files) :
                  LET l == load_voice_model(r, voice_name, voice_models, files, mo, co)
                  IN  /\ files' = l.files
                      /\ voice_models' = l.cache
                      /\ procs' = [procs EXCEPT ![r] =
                            [AfterLoadCall(@, voice_name, l) EXCEPT
                                !.kind = "tts",
                                !.textLen = textLen,
                                !.pc = CASE l.outcome = "hit" -> "synth"
                                         [] l.outcome = "await" -> "loading"
                                         [] OTHER -> "done",
                                \* "except Exception" of text_to_speech
                                !.code = IF l.outcome = "raise" THEN 500 ELSE 0]]
    /\ UNCHANGED <<config, phase, asrVars, timeVars>>

\* a resumption that registers a handle although PiperVoice.load raised
load_voice_model_resume_cachesFailure(p, voice_name, cache, ok) ==
    [cache |-> CacheInsert(cache, voice_name, VoiceModel(voice_name, p)),
     handle |-> IF ok THEN VoiceModel(voice_name, p) ELSE NoHandle,
     status |-> IF ok THEN 0 ELSE 500]

\* a resumption whose except clause drops the entry of the voice
load_voice_model_resume_evictsOnFailure(p, voice_name, cache, ok) ==
    IF ok
    THEN [cache |-> CacheInsert(cache, voice_name, VoiceModel(voice_name, p)),
          handle |-> VoiceModel(voice_name, p), status |-> 0]
    ELSE [cache |-> [v \in DOMAIN cache \ {voice_name} |-> cache[v]],
          handle |-> NoHandle, status |-> 500]

\* load_voice_model of process p from the end of run_in_executor on: ok, the
\* handle is stored and returned (status 0); PiperVoice.load raised, the
\* except clause raises HTTPException(500)
load_voice_model_resume(p, voice_name, cache, ok) ==
    IF ok
    THEN [cache |-> CacheInsert(cache, voice_name, VoiceModel(voice_name, p)),
          handle |-> VoiceModel(voice_name, p), status |-> 0]
    ELSE [cache |-> cache, handle |-> NoHandle, status |-> 500]

\* PiperVoice.load ended in the worker thread and load_voice_model resumes
\* after "await loop.run_in_executor(...)"
LoadResume(p) ==
    /\ procs[p].pc = "loading"
    /\ \E ok \in BOOLEAN :
         LET l == load_voice_model_resume(p, procs[p].voice, voice_models, ok)
         IN  /\ voice_models' = l.cache
             /\ procs' = [procs EXCEPT ![p] =
                   IF l.status = 0
                   THEN [@ EXCEPT !.load = "ok",
                                  !.handle = l.handle,
                                  !.pc = IF procs[p].kind = "tts" THEN "synth" ELSE "done"]
                   \* text_to_speech answers 500; startup_event only logs
                   ELSE [@ EXCEPT !.load = "failed",
                                  !.pc = "done",
                                  !.code = IF procs[p].kind = "tts" THEN l.status ELSE 0]]
    /\ phase' = IF procs[p].kind = "preload" THEN "serving" ELSE phase
    /\ UNCHANGED <<config, files, asrVars, timeVars>>

\* synthesize_audio_sync ended in the worker thread and text_to_speech resumes
SynthFinish(r) ==
    /\ procs[r].pc = "synth"
    /\ \E ok \in BOOLEAN :
         procs' = [procs EXCEPT ![r] =
            [@ EXCEPT !.pc = "done",
                      !.code = IF ok THEN 200 ELSE 500,
                      !.body = IF ok THEN "audio/wav" ELSE ""]]
    /\ UNCHANGED <<config, voice_models, files, phase, asrVars, timeVars>>

(***************************************************************************)
(* POST /download-voice and its background task                            *)
(***************************************************************************)
\* a handler that looks only at the model file
download_voice_modelFileOnly(voice_name, fs) ==
    IF voice_name \notin VOICE_CATALOG
    THEN [code |-> 404, status |-> "", exists_called |-> FALSE, add_task |-> FALSE]
    ELSE IF ModelPath(voice_name) \in fs
    THEN [code |-> 200, status |-> "already_exists",
          exists_called |-> TRUE, add_task |-> FALSE]
    ELSE [code |-> 200, status |-> "downloading",
          exists_called |-> TRUE, add_task |-> TRUE]

\* the handler download_voice: the response, whether Path.exists was called
\* and whether background_tasks.add_task(download_voice_model) was called
download_voice(voice_name, fs) ==
    LET model_path == ModelPath(voice_name)
        config_path == ConfigPath(voice_name)
    IN  IF voice_name \notin VOICE_CATALOG
        THEN [code |-> 404, status |-> "", exists_called |-> FALSE, add_task |-> FALSE]
        ELSE IF model_path \in fs /\ config_path \in fs
        THEN [code |-> 200, status |-> "already_exists",
              exists_called |-> TRUE, add_task |-> FALSE]
        ELSE [code |-> 200, status |-> "downloading",
              exists_called |-> TRUE, add_task |-> TRUE]

DownloadVoice(r) ==
    /\ Arrives(r)
    /\ \E voice_name \in Voices :
         LET d == download_voice(voice_name, files)
         IN  procs' = [procs EXCEPT ![r] =
               [@ EXCEPT !.kind = "download", !.voice = voice_name,
                         !.fsops = d.exists_called,
                         \* the task runs once the response has been sent
                         !.pc = IF d.add_task THEN "background" ELSE "done",
                         !.code = d.code, !.body = d.status]]
    /\ UNCHANGED <<config, voice_models, files, phase, asrVars, timeVars>>

\* background_tasks runs download_voice_model after the response was sent
BackgroundDownload(r) ==
    /\ procs[r].pc = "background"
    /\ \E mo \in ModelFetchOutcomes(procs[r].voice, files),
          co \in ConfigFetchOutcomes(procs[r].voice, files) :
         LET d == download_voice_model(procs[r].voice, files, mo, co)
         IN  /\ files' = d.files
             /\ procs' = [procs EXCEPT ![r] =
                    [@ EXCEPT !.pc = "done", !.dl = d.status,
                              !.fsops = (@ \/ d.nexists + d.nunlink > 0),
                              !.fetched = (d.nfetch > 0),
                              !.fetchedModel = d.model_fetch]]
    /\ UNCHANGED <<config, voice_models, phase, asrVars, timeVars>>

(***************************************************************************)
(* GET /health                                                             *)
(***************************************************************************)
\* a health check that reports the voices of the catalog as loaded
health_check_countsCatalog(cache, cfg) ==
    [status |-> "healthy",
     voice_models_loaded |-> Cardinality(VOICE_CATALOG),
     default_voice |-> cfg.default_voice]

\* the HealthResponse built by the handler health_check
health_check(cache, cfg) ==
    [status |-> "healthy",
     voice_models_loaded |-> Cardinality(DOMAIN cache),
     default_voice |-> cfg.default_voice]

HealthCheck(r) ==
    /\ Arrives(r)
    /\ LET response == health_check(voice_models, config)
       IN  procs' = [procs EXCEPT ![r] =
             [@ EXCEPT !.kind = "health", !.pc = "done", !.code = 200,
                       !.body = response.status,
                       !.count = response.voice_models_loaded]]
    /\ UNCHANGED <<config, voice_models, files, phase, asrVars, timeVars>>

(***************************************************************************)
(* shutdown_event: runs once no request is in flight                       *)
(***************************************************************************)
ShutdownEvent ==
    /\ phase = "serving"
    /\ \A p \in Procs : procs[p].pc \in {"idle", "done"}
    /\ voice_models' = EmptyCache
    /\ phase' = "stopped"
    /\ UNCHANGED <<config, files, procs, asrVars, timeVars>>

(***************************************************************************)
(* Python values used by the Whisper service                               *)
(***************************************************************************)
DigitChars == <<"0", "1", "2", "3", "4", "5", "6", "7", "8", "9">>

\* str(n) for n >= 0
RECURSIVE Str(_)
Str(n) == IF n < 10 THEN DigitChars[n + 1]
          ELSE Str(n \div 10) \o DigitChars[(n % 10) + 1]

RECURSIVE Zeros(_)
Zeros(k) == IF k <= 0 THEN "" ELSE "0" \o Zeros(k - 1)

\* format(n, "0{w}d"): zero-padded to at least w characters
Pad(n, w) == Zeros(w - Len(Str(n))) \o Str(n)

RECURSIVE Pow2(_)
Pow2(k) == IF k <= 0 THEN 1 ELSE 2 * Pow2(k - 1)

\* 2^k mod 1000
RECURSIVE Pow2Mod1000(_)
Pow2Mod1000(k) == IF k <= 0 THEN 1 ELSE (2 * Pow2Mod1000(k - 1)) % 1000

\* the binary exponent e of ms/1000: 2^e <= ms/1000 < 2^(e+1), for ms >= 1
RECURSIVE ExponentUp(_, _)
ExponentUp(ms, e) == IF 1000 * Pow2(e + 1) <= ms THEN ExponentUp(ms, e + 1) ELSE e
RECURSIVE ExponentDown(_, _)
ExponentDown(ms, k) == IF ms * Pow2(k) < 1000 THEN ExponentDown(ms, k + 1) ELSE 0 - k
Exponent(ms) == IF ms >= 1000 THEN ExponentUp(ms, 0) ELSE ExponentDown(ms, 1)

\* The IEEE-754 double nearest to ms/1000 is M / 2^(52-e) with
\* ms * 2^(52-e) = 1000 * M + rho and -500 < rho < 500 (a tie, rho = 500, cannot
\* happen: 8 divides ms * 2^(52-e) and 1000, not 500).  The double is
\*     whole + milli/1000 - rho / (1000 * 2^(52-exp)),
\* below the decimal value when rho > 0.
FloatOfMillis(ms) ==
    LET e == IF ms = 0 THEN 0 ELSE Exponent(ms)
        r == ((ms % 1000) * Pow2Mod1000(52 - e)) % 1000
    IN  [whole |-> ms \div 1000,
         milli |-> ms % 1000,
         rho |-> IF r < 500 THEN r ELSE r - 1000,
         exp |-> e]

\* x // d and x % d for a whole divisor d: fmod is exact, and the part below
\* one second is carried over unchanged
FloorDiv(x, d) == x.whole \div d
FloatMod(x, d) == [x EXCEPT !.whole = x.whole % d]

\* the exponent of the doubles just below the whole number f, 1 <= f < 1000
RECURSIVE Log2Floor(_)
Log2Floor(f) == IF f < 2 THEN 0 ELSE 1 + Log2Floor(f \div 2)
ExponentBelow(f) ==
    IF Pow2(Log2Floor(f)) = f THEN Log2Floor(f) - 1 ELSE Log2Floor(f)

\* int((x % 1) * 1000): the product is milli - rho / 2^(52-exp), rounded to
\* the nearest double and then truncated.  With rho > 0 it rounds up to milli
\* only when rho / 2^(52-exp) is at most half the spacing of the doubles below
\* milli, i.e. rho <= 2^(ExponentBelow(milli) - 1 - exp); otherwise it stays
\* below milli and truncates to milli - 1
TruncMillis(x) ==
    LET d == ExponentBelow(x.milli) - 1 - x.exp
    IN  IF x.rho > 0 /\ ~(d >= 0 /\ x.rho <= Pow2(d))
        THEN x.milli - 1
        ELSE x.milli

\* format(x, "06.3f") for 0 <= x < 60: rounded to the nearest thousandth (the
\* double is within half a thousandth of whole + milli/1000)
Format063f(x) == Pad(x.whole, 2) \o "." \o Pad(x.milli, 3)

\* WhisperService._seconds_to_vtt_time
seconds_to_vtt_time(seconds) ==
    LET hours == FloorDiv(seconds, 3600)
        minutes == FloorDiv(FloatMod(seconds, 3600), 60)
        seconds60 == FloatMod(seconds, 60)
    IN  Pad(hours, 2) \o ":" \o Pad(minutes, 2) \o ":" \o Format063f(seconds60)

\* WhisperService._seconds_to_srt_time
seconds_to_srt_time(seconds) ==
    LET hours == FloorDiv(seconds, 3600)
        minutes == FloorDiv(FloatMod(seconds, 3600), 60)
        seconds60 == FloatMod(seconds, 60)
        milliseconds == TruncMillis(FloatMod(seconds60, 1))
        secondsInt == seconds60.whole
    IN  Pad(hours, 2) \o ":" \o Pad(minutes, 2) \o ":" \o Pad(secondsInt, 2)
        \o "," \o Pad(milliseconds, 3)

(***************************************************************************)
(* Timestamp rendering: inputs and steps                                   *)
(***************************************************************************)
MaxMillis == 1200

\* whole milliseconds: every value up to MaxMillis, 3661.5 s, and the last
\* millisecond of a day
TimeInputs == 0..MaxMillis \cup {3661500, 86399999}

InitTime ==
    /\ tin \in TimeInputs
    /\ vtt_out = ""
    /\ srt_out = ""

RenderVtt ==
    /\ tin >= 0
    /\ vtt_out = ""
    /\ vtt_out' = seconds_to_vtt_time(FloatOfMillis(tin))
    /\ UNCHANGED <<tin, srt_out, ttsVars, asrVars>>

RenderSrt ==
    /\ tin >= 0
    /\ srt_out = ""
    /\ srt_out' = seconds_to_srt_time(FloatOfMillis(tin))
    /\ UNCHANGED <<tin, vtt_out, ttsVars, asrVars>>

(***************************************************************************)
(* The services that a specification leaves switched off                   *)
(***************************************************************************)
TtsOff ==
    /\ config = [default_voice |-> "en_US-lessac-low", max_text_length |-> FieldMaxLength]
    /\ voice_models = EmptyCache
    /\ files = {}
    /\ phase = "off"
    /\ procs = [p \in Procs |-> IdleProc]

TimeOff ==
    /\ tin = -1
    /\ vtt_out = ""
    /\ srt_out = ""

(***************************************************************************)
(* Whisper ASR service: the inference result and the output formats        *)
(***************************************************************************)
NumAsrReqs == 1
MaxSegs == 2

AsrReqs == 1..NumAsrReqs

\* two segments the inference can produce; times in whole milliseconds
SegA == [start |-> 0, end |-> 1001, text |-> " Hello.",
         words |-> <<[word |-> " Hello.", start |-> 0, end |-> 1001, probability |-> 90]>>]
SegB == [start |-> 1001, end |-> 3661500, text |-> " Bye.", words |-> <<>>]
Segments == {SegA, SegB}
SegmentLists == UNION {[1..k -> Segments] : k \in 0..MaxSegs}

\* the TranscriptionInfo of the inference call
Info == [language |-> "en", language_probability |-> 99, duration |-> 3661500]

OutputFormats == {"txt", "vtt", "srt", "tsv", "json"}

\* self.model.transcribe(...): the segments come as an iterable that is a
\* generator (oneShot) or a list; words are set only with word_timestamps
ModelTranscribe(segs, oneShot, word_timestamps) ==
    [items |-> [i \in 1..Len(segs) |->
                  IF word_timestamps THEN segs[i] ELSE [segs[i] EXCEPT !.words = <<>>]],
     oneShot |-> oneShot,
     used |-> FALSE]

\* one "for segment in segments": what the loop sees, and the iterable after
Traverse(it) ==
    [seen |-> IF it.oneShot /\ it.used THEN <<>> ELSE it.items,
     it |-> [it EXCEPT !.used = TRUE]]

\* sep.join(strs)
RECURSIVE JoinWith(_, _)
JoinWith(sep, strs) ==
    IF Len(strs) = 0 THEN ""
    ELSE IF Len(strs) = 1 THEN strs[1]
    ELSE strs[1] \o sep \o JoinWith(sep, Tail(strs))

Texts(items) == [i \in 1..Len(items) |-> items[i].text]

\* a plain-text form that walks the segments once to count them and then again
\* to join them
FormatText_countFirst(segments) ==
    LET t1 == Traverse(segments)
        t2 == Traverse(t1.it)
    IN  [text |-> JoinWith(" ", Texts(t2.seen))]

\* {"text": " ".join(segment.text for segment in segments)}
FormatText(segments) ==
    LET t1 == Traverse(segments)
    IN  [text |-> JoinWith(" ", Texts(t1.seen))]

\* WhisperService._format_json_output
format_json_output(segments, info) ==
    LET t1 == Traverse(segments)
        t2 == Traverse(t1.it)
    IN  [text |-> JoinWith(" ", Texts(t1.seen)),
         language |-> info.language,
         language_probability |-> info.language_probability,
         duration |-> info.duration,
         segments |-> [i \in 1..Len(t2.seen) |->
             LET segment == t2.seen[i]
             IN  [id |-> i - 1,
                  start |-> segment.start,
                  end |-> segment.end,
                  text |-> segment.text,
                  words |-> IF segment.words # <<>>
                            THEN [k \in 1..Len(segment.words) |->
                                    [word |-> segment.words[k].word,
                                     start |-> segment.words[k].start,
                                     end |-> segment.words[k].end,
                                     probability |-> segment.words[k].probability]]
                            ELSE <<>>]]]

RECURSIVE VttLines(_)
VttLines(items) ==
    IF Len(items) = 0 THEN <<>>
    ELSE LET segment == items[1]
             start_time == seconds_to_vtt_time(FloatOfMillis(segment.start))
             end_time == seconds_to_vtt_time(FloatOfMillis(segment.end))
         IN  <<start_time \o " --> " \o end_time, segment.text, "">>
             \o VttLines(Tail(items))

\* WhisperService._format_vtt_output
format_vtt_output(segments) ==
    JoinWith("\n", <<"WEBVTT", "">> \o VttLines(Traverse(segments).seen))

RECURSIVE SrtLines(_, _)
SrtLines(items, i) ==
    IF Len(items) = 0 THEN <<>>
    ELSE LET segment == items[1]
             start_time == seconds_to_srt_time(FloatOfMillis(segment.start))
             end_time == seconds_to_srt_time(FloatOfMillis(segment.end))
         IN  <<Str(i), start_time \o " --> " \o end_time, segment.text, "">>
             \o SrtLines(Tail(items), i + 1)

\* WhisperService._format_srt_output
format_srt_output(segments) ==
    JoinWith("\n", SrtLines(Traverse(segments).seen, 1))

\* the output_format branches of transcribe_audio
FormatResult(output_format, segments, info) ==
    CASE output_format = "json" -> format_json_output(segments, info)
      [] output_format = "txt" -> FormatText(segments)
      [] output_format = "vtt" -> [vtt |-> format_vtt_output(segments)]
      [] output_format = "srt" -> [srt |-> format_srt_output(segments)]
      [] OTHER -> FormatText(segments)

(***************************************************************************)
(* Whisper ASR service: state and steps                                    *)
(***************************************************************************)
IdleAReq == [kind |-> "none", pc |-> "idle", output |-> "", created |-> FALSE,
             segs |-> <<>>, oneShot |-> FALSE, code |-> 0, result |-> <<>>]

InitASR ==
    /\ cuda_available \in BOOLEAN
    /\ whisper_service = [device |-> "unset", compute_type |-> "unset", model |-> "none"]
    /\ aphase = "import"
    /\ tmpfiles = {}
    /\ areqs = [r \in AsrReqs |-> IdleAReq]
    /\ asr_log = <<>>

AsrOff ==
    /\ cuda_available = FALSE
    /\ whisper_service = [device |-> "unset", compute_type |-> "unset", model |-> "none"]
    /\ aphase = "off"
    /\ tmpfiles = {}
    /\ areqs = [r \in AsrReqs |-> IdleAReq]
    /\ asr_log = <<>>

\* WhisperService.__init__ up to the call of _load_model
WhisperServiceInit ==
    /\ aphase = "import"
    /\ \E tensor_ok \in BOOLEAN :
         /\ whisper_service' =
               IF cuda_available /\ tensor_ok
               THEN [whisper_service EXCEPT !.device = "cuda", !.compute_type = "float16"]
               ELSE [whisper_service EXCEPT !.device = "cpu", !.compute_type = "float32"]
         /\ asr_log' =
               IF ~cuda_available THEN asr_log
               ELSE IF tensor_ok THEN Append(asr_log, "CUDA available - using GPU")
               ELSE Append(asr_log, "CUDA test failed")
    /\ aphase' = "loading"
    /\ UNCHANGED <<cuda_available, tmpfiles, areqs, ttsVars, timeVars>>

\* a model load that, failing on the cpu, tries the accelerator next
load_model_retryOnCuda(self, first_ok, fallback_ok) ==
    IF first_ok
    THEN [self |-> [self EXCEPT !.model = self.device], raised |-> FALSE,
          logged |-> <<"Model loaded successfully">>]
    ELSE [self |-> [device |-> IF self.device = "cuda" THEN "cpu" ELSE "cuda",
                    compute_type |-> IF self.device = "cuda" THEN "float32" ELSE "float16",
                    model |-> IF ~fallback_ok THEN "none"
                              ELSE IF self.device = "cuda" THEN "cpu" ELSE "cuda"],
          raised |-> ~fallback_ok,
          logged |-> <<"Failed to load model", "GPU model failed, falling back to CPU">>]

\* WhisperService._load_model on the object self: the object after the call,
\* whether the call raised, and what it logged.  The model field names the
\* device the loaded model runs on
load_model(self, first_ok, fallback_ok) ==
    IF first_ok
    THEN [self |-> [self EXCEPT !.model = self.device], raised |-> FALSE,
          logged |-> <<"Model loaded successfully">>]
    ELSE IF self.device = "cuda"
    THEN [self |-> [device |-> "cpu", compute_type |-> "float32",
                    model |-> IF fallback_ok THEN "cpu" ELSE "none"],
          \* RuntimeError when the fallback fails too
          raised |-> ~fallback_ok,
          logged |-> <<"Failed to load model", "GPU model failed, falling back to CPU",
                       IF fallback_ok THEN "CPU fallback model loaded successfully"
                       ELSE "CPU fallback also failed">>]
    ELSE [self |-> self, raised |-> TRUE, logged |-> <<"Failed to load model">>]

\* WhisperService._load_model, called at the end of __init__ during the
\* import of the module; an exception out of it ends the process
LoadModel ==
    /\ aphase = "loading"
    /\ \E first_ok \in BOOLEAN, fallback_ok \in BOOLEAN :
         LET l == load_model(whisper_service, first_ok, fallback_ok)
         IN  /\ whisper_service' = l.self
             /\ asr_log' = asr_log \o l.logged
             /\ aphase' = IF l.raised THEN "crashed" ELSE "serving"
    /\ UNCHANGED <<cuda_available, tmpfiles, areqs, ttsVars, timeVars>>

\* requests are numbered in arrival order
AsrArrives(r) ==
    /\ aphase = "serving"
    /\ areqs[r].pc = "idle"
    /\ \A q \in AsrReqs : q < r => areqs[q].pc # "idle"

\* POST /asr up to "await audio_file.read()" in transcribe_audio
Transcribe(r) ==
    /\ AsrArrives(r)
    /\ \E audio_type \in BOOLEAN, allowed_ext \in BOOLEAN, output \in OutputFormats,
          made \in BOOLEAN :
         IF ~audio_type /\ ~allowed_ext
         THEN /\ areqs' = [areqs EXCEPT ![r] =
                    [@ EXCEPT !.kind = "asr", !.output = output,
                              !.pc = "done", !.code = 400]]
              /\ UNCHANGED tmpfiles
         ELSE IF ~made
         \* NamedTemporaryFile raised: no file, the handler answers 500
         THEN /\ areqs' = [areqs EXCEPT ![r] =
                    [@ EXCEPT !.kind = "asr", !.output = output,
                              !.pc = "done", !.code = 500]]
              /\ UNCHANGED tmpfiles
         ELSE /\ areqs' = [areqs EXCEPT ![r] =
                    [@ EXCEPT !.kind = "asr", !.output = output,
                              !.created = TRUE, !.pc = "reading"]]
              /\ tmpfiles' = tmpfiles \cup {r}
    /\ UNCHANGED <<cuda_available, whisper_service, aphase, asr_log, ttsVars, timeVars>>

\* transcribe_audio from the end of the read to its return
TranscribeResume(r) ==
    /\ areqs[r].pc = "reading"
    /\ areqs[r].kind = "asr"
    /\ \E io \in {"ok", "read_raises", "write_raises"},
          raises \in {"none", "call", "iteration"} :
       \* the inference result matters only when nothing raised
       \E segs \in IF io = "ok" /\ raises = "none" THEN SegmentLists ELSE {<<>>},
          oneShot \in IF io = "ok" /\ raises = "none" THEN BOOLEAN ELSE {FALSE} :
         IF io # "ok"
         \* the exception leaves the with block, which is outside the try: the
         \* file (delete=False) stays
         THEN /\ areqs' = [areqs EXCEPT ![r] = [@ EXCEPT !.pc = "done", !.code = 500]]
              /\ UNCHANGED tmpfiles
         ELSE IF raises # "none"
         \* self.model.transcribe raised, or the lazy generator raised while it
         \* was formatted; "finally" unlinks the file (os.unlink of the file the
         \* call itself created is taken to succeed)
         THEN /\ areqs' = [areqs EXCEPT ![r] = [@ EXCEPT !.pc = "done", !.code = 500]]
              /\ tmpfiles' = tmpfiles \ {r}
         ELSE LET segments == ModelTranscribe(segs, oneShot, areqs[r].output = "json")
              IN  /\ areqs' = [areqs EXCEPT ![r] =
                        [@ EXCEPT !.pc = "done", !.code = 200,
                                  !.segs = segments.items,
                                  !.oneShot = oneShot,
                                  !.result = FormatResult(areqs[r].output, segments, Info)]]
                  /\ tmpfiles' = tmpfiles \ {r}
    /\ UNCHANGED <<cuda_available, whisper_service, aphase, asr_log, ttsVars, timeVars>>

\* POST /detect-language up to "await audio_file.read()" in detect_language
DetectLanguage(r) ==
    /\ AsrArrives(r)
    /\ \E made \in BOOLEAN :
         IF ~made
         THEN /\ areqs' = [areqs EXCEPT ![r] =
                    [@ EXCEPT !.kind = "detect", !.pc = "done", !.code = 500]]
              /\ UNCHANGED tmpfiles
         ELSE /\ areqs' = [areqs EXCEPT ![r] =
                    [@ EXCEPT !.kind = "detect", !.created = TRUE, !.pc = "reading"]]
              /\ tmpfiles' = tmpfiles \cup {r}
    /\ UNCHANGED <<cuda_available, whisper_service, aphase, asr_log, ttsVars, timeVars>>

\* detect_language from the end of the read to its return
DetectLanguageResume(r) ==
    /\ areqs[r].pc = "reading"
    /\ areqs[r].kind = "detect"
    /\ \E io \in {"ok", "read_raises", "write_raises"}, raises \in BOOLEAN :
         IF io # "ok"
         THEN /\ areqs' = [areqs EXCEPT ![r] = [@ EXCEPT !.pc = "done", !.code = 500]]
              /\ UNCHANGED tmpfiles
         ELSE IF raises
         THEN /\ areqs' = [areqs EXCEPT ![r] = [@ EXCEPT !.pc = "done", !.code = 500]]
              /\ tmpfiles' = tmpfiles \ {r}
         ELSE /\ areqs' = [areqs EXCEPT ![r] =
                    [@ EXCEPT !.pc = "done", !.code = 200,
                              !.result = [detected_language |-> Info.language,
                                          language_probability |-> Info.language_probability]]]
              /\ tmpfiles' = tmpfiles \ {r}
    /\ UNCHANGED <<cuda_available, whisper_service, aphase, asr_log, ttsVars, timeVars>>

\* GET /health of the ASR service
AsrHealthCheck(r) ==
    /\ AsrArrives(r)
    /\ areqs' = [areqs EXCEPT ![r] =
          [@ EXCEPT !.kind = "health", !.pc = "done", !.code = 200,
                    !.result = [status |-> "healthy",
                                device |-> whisper_service.device,
                                gpu_available |-> cuda_available]]]
    /\ UNCHANGED <<cuda_available, whisper_service, aphase, tmpfiles, asr_log, ttsVars, timeVars>>

\* GET / of the ASR service
Root(r) ==
    /\ AsrArrives(r)
    /\ areqs' = [areqs EXCEPT ![r] =
          [@ EXCEPT !.kind = "root", !.pc = "done", !.code = 200,
                    !.result = [service |-> "Whisper ASR Service",
                                device |-> whisper_service.device,
                                gpu_acceleration |-> cuda_available]]]
    /\ UNCHANGED <<cuda_available, whisper_service, aphase, tmpfiles, asr_log, ttsVars, timeVars>>

\* shutdown_event of the ASR service: cleanup_cuda_memory
AsrShutdownEvent ==
    /\ aphase = "serving"
    /\ \A r \in AsrReqs : areqs[r].pc \in {"idle", "done"}
    /\ whisper_service' = [whisper_service EXCEPT !.model = "none"]
    /\ aphase' = "stopped"
    /\ UNCHANGED <<cuda_available, tmpfiles, areqs, asr_log, ttsVars, timeVars>>

(***************************************************************************)
(* Specifications                                                          *)
(***************************************************************************)
\* the Piper TTS service
Init == InitTTS /\ AsrOff /\ TimeOff

Next ==
    \/ StartupEvent
    \/ \E r \in Reqs : TextToSpeechInvalid(r)
    \/ \E r \in Reqs : TextToSpeech(r)
    \/ \E p \in Procs : LoadResume(p)
    \/ \E r \in Reqs : SynthFinish(r)
    \/ \E r \in Reqs : DownloadVoice(r)
    \/ \E r \in Reqs : BackgroundDownload(r)
    \/ \E r \in Reqs : HealthCheck(r)
    \/ ShutdownEvent

Spec == Init /\ [][Next]_vars

\* the Whisper ASR service
InitA == TtsOff /\ InitASR /\ TimeOff

NextA ==
    \/ WhisperServiceInit
    \/ LoadModel
    \/ \E r \in AsrReqs : Transcribe(r)
    \/ \E r \in AsrReqs : TranscribeResume(r)
    \/ \E r \in AsrReqs : DetectLanguage(r)
    \/ \E r \in AsrReqs : DetectLanguageResume(r)
    \/ \E r \in AsrReqs : AsrHealthCheck(r)
    \/ \E r \in AsrReqs : Root(r)
    \/ AsrShutdownEvent

SpecASR == InitA /\ [][NextA]_vars

\* both services: they are separate processes that share no state, so a
\* behaviour of the pair is a behaviour of the one or of the other
InitS == (InitTTS /\ AsrOff /\ TimeOff) \/ (TtsOff /\ InitASR /\ TimeOff)

NextS == Next \/ NextA

SpecServices == InitS /\ [][NextS]_vars

\* the timestamp renderers
InitT == TtsOff /\ AsrOff /\ InitTime

NextT == RenderVtt \/ RenderSrt

SpecTime == InitT /\ [][NextT]_vars

(***************************************************************************)
(* Properties of the TTS service                                           *)
(***************************************************************************)
\* process p starts a voice resolution in this step: StartupEvent, or a /tts
\* request that passed validation, calls load_voice_model
Resolves(p) ==
    /\ procs[p].pc = "idle"
    /\ procs'[p].pc # "idle"
    /\ procs'[p].kind \in {"tts", "preload"}
    /\ procs'[p].code # 422

\* C1: every voice identifier in the voice_models cache maps to the handle of
\* a PiperVoice.load call for that voice that completed successfully; the
\* handle of a failed or unfinished load is never in the cache.
C1_CacheHoldsOnlyLoadedHandles ==
    \A v \in DOMAIN voice_models :
        LET h == voice_models[v]
        IN  /\ h.voice = v
            /\ h.by \in Procs
            /\ procs[h.by].voice = v
            /\ procs[h.by].load = "ok"

\* a voice is cached while another load of the same voice failed or is
\* still running
C1_Witness ==
    \E v \in DOMAIN voice_models : \E p \in Procs :
        /\ procs[p].voice = v
        /\ procs[p].load \in {"failed", "running"}

\* C2: a /tts request for a voice that is not in the catalog ends with a
\* not-found client error, never with a server error.
C2_UnknownVoiceIsNotFound ==
    \A r \in Reqs :
        (/\ procs[r].kind = "tts"
         /\ procs[r].pc = "done"
         /\ procs[r].code # 422
         /\ procs[r].voice \notin VOICE_CATALOG)
        => procs[r].code = 404

\* C3: resolving a voice that is not in the catalog makes no exists() or
\* unlink() call, no urlretrieve call, changes no file and leaves the cache
\* unchanged.
C3_UnknownVoiceTouchesNothing ==
    [][\A p \in Procs :
          (Resolves(p) /\ procs'[p].voice \notin VOICE_CATALOG)
          => /\ files' = files
             /\ voice_models' = voice_models
             /\ ~procs'[p].fsops
             /\ ~procs'[p].fetched
             /\ procs'[p].load = "none"]_vars

\* a /tts request for the unknown voice was resolved while files are on disk
C3_Witness ==
    \E r \in Reqs :
        /\ procs[r].kind = "tts"
        /\ procs[r].voice = "xx_XX-unknown"
        /\ procs[r].dl = 404
        /\ files # {}

\* C4: a resolution that starts when the voice is in the cache returns the
\* cached handle, with no download, no change on disk and no call of
\* PiperVoice.load, then or later in the same request; a background download
\* that runs when the voice is in the cache fetches nothing either.
C4_CachedVoiceServedFromCache ==
    [][\A p \in Procs :
          /\ (Resolves(p) /\ procs'[p].voice \in DOMAIN voice_models)
             => /\ procs'[p].hit
                /\ procs'[p].handle = voice_models[procs'[p].voice]
                /\ procs'[p].dl = -1
                /\ ~procs'[p].fetched
                /\ procs'[p].load = "none"
                /\ files' = files
                /\ voice_models' = voice_models
          /\ procs[p].hit
             => /\ procs'[p].load = "none"
                /\ ~procs'[p].fetched
                /\ procs'[p].handle = procs[p].handle
          /\ (/\ procs[p].pc = "background"
              /\ procs'[p].pc = "done"
              /\ procs[p].voice \in DOMAIN voice_models)
             => /\ ~procs'[p].fetched
                /\ procs'[p].dl = 0
                /\ files' = files]_vars

\* a request was served the handle that another process had loaded
C4_Witness ==
    \E r \in Reqs :
        /\ procs[r].hit
        /\ procs[r].handle.by # r
        /\ procs[r].code = 200

\* C5: when download_voice_model raises its failure for a catalog voice,
\* neither the model file nor the metadata file of that voice is on disk.
C5_FailedDownloadLeavesNoFile ==
    [][\A p \in Procs :
          (procs[p].dl # 500 /\ procs'[p].dl = 500)
          => /\ ModelPath(procs'[p].voice) \notin files'
             /\ ConfigPath(procs'[p].voice) \notin files']_vars

\* a download failed after a fetch, for a /tts request and for a background
\* task
C5_Witness ==
    /\ \E r \in Reqs :
          procs[r].kind = "tts" /\ procs[r].dl = 500 /\ procs[r].fetched
    /\ \E r \in Reqs :
          procs[r].kind = "download" /\ procs[r].dl = 500 /\ procs[r].fetched

\* C6: a /tts request whose text is longer than config.max_text_length is
\* rejected before any voice load or synthesis call.
C6_OverlongTextRejected ==
    \A r \in Reqs :
        (procs[r].kind = "tts" /\ procs[r].textLen > config.max_text_length)
        => /\ procs[r].pc = "done"
           /\ procs[r].code = 422
           /\ procs[r].dl = -1
           /\ ~procs[r].hit
           /\ procs[r].load = "none"

\* C12: when PiperVoice.load fails for a catalog voice whose two files are
\* on disk, load_voice_model raises its server error (a /tts request ends
\* with 500 and no synthesis) and the call leaves the cache as it was: neither
\* the step that starts the load nor the step that fails changes any entry.
C12_FailedLoadLeavesCacheAlone ==
    [][\A p \in Procs :
          /\ (procs[p].load = "none" /\ procs'[p].load = "running")
             => voice_models' = voice_models
          /\ (procs[p].load = "running" /\ procs'[p].load = "failed")
             => /\ procs[p].voice \in VOICE_CATALOG
                /\ ModelPath(procs[p].voice) \in files
                /\ ConfigPath(procs[p].voice) \in files
                /\ voice_models' = voice_models
                /\ files' = files
                /\ procs'[p].pc = "done"
                /\ procs'[p].handle = NoHandle
                /\ procs[p].kind = "tts"
                    => (procs'[p].code = 500 /\ procs'[p].body = "")]_vars

\* a /tts request ended with 500 after its load failed, its voice is not in
\* the cache, and the cache holds another voice
C12_Witness ==
    \E r \in Reqs :
        /\ procs[r].kind = "tts"
        /\ procs[r].load = "failed"
        /\ procs[r].code = 500
        /\ procs[r].voice \notin DOMAIN voice_models
        /\ voice_models # EmptyCache

\* processes p and q both missed the cache for the same catalog voice and
\* both started a load of it
Raced(ps, p, q) ==
    /\ p # q
    /\ ps[p].voice = ps[q].voice
    /\ ps[p].voice \in VOICE_CATALOG
    /\ ps[p].load # "none"
    /\ ps[q].load # "none"

\* C13: when requests for the same uncached catalog voice interleave, a
\* request whose load succeeds gets the handle of its own completed load and
\* goes on with it, a load that fails removes and replaces no entry of the
\* cache, and once both requests have finished (before shutdown) the voice is
\* in the cache exactly if some load of it succeeded.
C13_RaceKeepsCacheSound ==
    [][\A p \in Procs :
          /\ (procs[p].load = "running" /\ procs'[p].load = "ok")
             => /\ procs'[p].handle = VoiceModel(procs[p].voice, p)
                /\ voice_models'[procs[p].voice] = procs'[p].handle
                /\ procs[p].kind = "tts" => procs'[p].pc = "synth"
          /\ (procs[p].load = "running" /\ procs'[p].load = "failed")
             => \A v \in DOMAIN voice_models :
                   /\ v \in DOMAIN voice_models'
                   /\ voice_models'[v] = voice_models[v]
          /\ \A q \in Procs :
                (/\ Raced(procs', p, q)
                 /\ procs'[p].load \in {"ok", "failed"}
                 /\ procs'[q].load \in {"ok", "failed"}
                 /\ phase' # "stopped")
                => (procs'[p].voice \in DOMAIN voice_models'
                    <=> \E x \in Procs : /\ procs'[x].voice = procs'[p].voice
                                         /\ procs'[x].load = "ok")]_vars

\* two requests loaded the same voice redundantly: both loads succeeded, one
\* request fetched the files, and the cache holds the handle of one of them
C13_Witness ==
    \E p \in Reqs, q \in Reqs :
        /\ Raced(procs, p, q)
        /\ procs[p].load = "ok"
        /\ procs[q].load = "ok"
        /\ procs[p].fetched
        /\ procs[p].handle # procs[q].handle
        /\ voice_models[procs[p].voice] \in {procs[p].handle, procs[q].handle}

\* C14: the response of POST /download-voice for a catalog voice is
\* already_exists exactly when both files of the voice are on disk when the
\* handler runs, and downloading otherwise; the handler itself fetches and
\* changes nothing, and a fetch for the request happens only in a later step,
\* after the downloading response; a voice outside the catalog gets 404 and no
\* download is scheduled.
C14_DownloadVoiceAnswersFirst ==
    [][\A r \in Reqs :
          /\ (procs[r].pc = "idle" /\ procs'[r].kind = "download")
             => LET v == procs'[r].voice
                    both == ModelPath(v) \in files /\ ConfigPath(v) \in files
                IN  /\ files' = files
                    /\ voice_models' = voice_models
                    /\ ~procs'[r].fetched
                    /\ procs'[r].dl = -1
                    /\ v \in VOICE_CATALOG
                       => /\ procs'[r].code = 200
                          /\ procs'[r].body = "already_exists" <=> both
                          /\ procs'[r].body = "downloading" <=> ~both
                          /\ procs'[r].pc = "background" <=> ~both
                          /\ procs'[r].pc = "done" <=> both
                    /\ v \notin VOICE_CATALOG
                       => /\ procs'[r].code = 404
                          /\ procs'[r].pc = "done"
          /\ (/\ procs[r].kind = "download"
              /\ \/ procs'[r].dl # procs[r].dl
                 \/ procs'[r].fetched # procs[r].fetched)
             => /\ procs[r].pc = "background"
                /\ procs[r].code = 200
                /\ procs[r].body = "downloading"
          /\ (procs[r].kind = "download" /\ procs[r].pc = "done")
             => procs'[r] = procs[r]]_vars

\* one request was answered downloading and its task has fetched since;
\* another was answered already_exists
C14_Witness ==
    \E r \in Reqs, q \in Reqs :
        /\ procs[r].kind = "download"
        /\ procs[r].body = "downloading"
        /\ procs[r].pc = "done"
        /\ procs[r].fetched
        /\ procs[q].kind = "download"
        /\ procs[q].body = "already_exists"

\* C15: a voice that is in the cache stays in the cache through every step
\* other than the shutdown event, whatever request succeeds or fails; its
\* handle stays the same unless a successful load of the same voice stores its
\* own handle, so it is always the handle of a completed load; the shutdown
\* event leaves the cache empty.
C15_CachedUntilShutdown ==
    [][/\ phase' # "stopped"
          => \A v \in DOMAIN voice_models :
                /\ v \in DOMAIN voice_models'
                /\ \/ voice_models'[v] = voice_models[v]
                   \/ \E p \in Procs :
                         /\ procs[p].voice = v
                         /\ procs[p].load = "running"
                         /\ procs'[p].load = "ok"
                         /\ voice_models'[v] = procs'[p].handle
                /\ procs'[voice_models'[v].by].voice = v
                /\ procs'[voice_models'[v].by].load = "ok"
       /\ phase' = "stopped"
          => /\ phase = "serving"
             /\ voice_models' = EmptyCache]_vars

\* the service was shut down after a voice had been cached and served from
\* the cache, and after a request for another voice had failed
C15_Witness ==
    /\ phase = "stopped"
    /\ voice_models = EmptyCache
    /\ \E p \in Procs, r \in Reqs, q \in Reqs :
          /\ procs[p].load = "ok"
          /\ procs[r].hit
          /\ procs[r].voice = procs[p].voice
          /\ procs[q].code = 500
          /\ procs[q].voice \in VOICE_CATALOG
          /\ procs[q].voice # procs[p].voice

\* C17: when a download of a catalog voice starts with the model file on disk
\* and the metadata file missing and the metadata fetch fails, the attempt
\* ends with neither file of the voice on disk: the model file that was
\* there before is deleted; the files of the other voices and the cache are
\* unchanged.
C17_FailedMetadataFetchDeletesModel ==
    [][\A p \in Procs :
          LET v == procs'[p].voice
          IN  (/\ procs[p].dl # 500
               /\ procs'[p].dl = 500
               /\ ModelPath(v) \in files
               /\ ConfigPath(v) \notin files)
              => /\ procs'[p].fetched
                 /\ ~procs'[p].fetchedModel
                 /\ ModelPath(v) \notin files'
                 /\ ConfigPath(v) \notin files'
                 /\ files' = files \ {ModelPath(v)}
                 /\ voice_models' = voice_models]_vars

\* a download failed that fetched the metadata file only, while the files of
\* another voice are on disk and that voice is in the cache
C17_Witness ==
    \E p \in Procs :
        /\ procs[p].dl = 500
        /\ procs[p].fetched
        /\ ~procs[p].fetchedModel
        /\ ModelPath(procs[p].voice) \notin files
        /\ \E w \in VOICE_CATALOG \ {procs[p].voice} :
              /\ ModelPath(w) \in files
              /\ ConfigPath(w) \in files
              /\ w \in DOMAIN voice_models

\* process q runs download_voice_model in this step: inside load_voice_model
\* after a cache miss, or as the background task of /download-voice
Downloads(q) ==
    /\ procs[q].dl = -1
    /\ procs'[q].dl # -1

\* C18: while the load of a voice is running in the worker, both files of the
\* voice are on disk and stay there; a download step of any process for that
\* voice in the meantime returns the paths without a fetch and without a
\* change on disk, as does every download step that finds both files present;
\* and a download step is one step: the disk changes only in the step of the
\* one process that downloads, and no other process moves in it.
C18_FilesStableDuringLoad ==
    [][/\ \A p \in Procs :
            procs[p].load = "running"
            => LET v == procs[p].voice
               IN  /\ {ModelPath(v), ConfigPath(v)} \subseteq files
                   /\ {ModelPath(v), ConfigPath(v)} \subseteq files'
                   /\ \A q \in Procs :
                         (Downloads(q) /\ procs'[q].voice = v)
                         => /\ procs'[q].dl = 0
                            /\ ~procs'[q].fetched
                            /\ files' = files
       /\ \A q \in Procs :
            (/\ Downloads(q)
             /\ {ModelPath(procs'[q].voice), ConfigPath(procs'[q].voice)} \subseteq files)
            => /\ procs'[q].dl = 0
               /\ ~procs'[q].fetched
               /\ files' = files
       /\ files' # files
          => \E q \in Procs :
                /\ Downloads(q)
                /\ procs'[q].fetched
                /\ \A x \in Procs \ {q} : procs'[x] = procs[x]]_vars

\* while the load of a voice is running for the request that fetched its
\* files, the background task of a /download-voice request for the same voice,
\* answered before the files were there, has run and fetched nothing
C18_Witness ==
    \E p \in Reqs, q \in Reqs :
        /\ p # q
        /\ procs[p].load = "running"
        /\ procs[p].fetched
        /\ procs[q].voice = procs[p].voice
        /\ procs[q].kind = "download"
        /\ procs[q].body = "downloading"
        /\ procs[q].pc = "done"
        /\ procs[q].dl = 0
        /\ ~procs[q].fetched

(***************************************************************************)
(* Properties of the ASR service                                           *)
(***************************************************************************)
\* C7: when a transcribe_audio or detect_language call that created a
\* temporary audio file has ended, with a result or with a failure at any
\* step, that file no longer exists.
C7_TempFileRemovedAfterCall ==
    \A r \in AsrReqs :
        (areqs[r].created /\ areqs[r].pc = "done") => r \notin tmpfiles

\* the segment texts joined by single spaces, built up from the left
RECURSIVE SpaceJoinedUpTo(_, _)
SpaceJoinedUpTo(segs, n) ==
    IF n = 0 THEN ""
    ELSE IF n = 1 THEN segs[1].text
    ELSE SpaceJoinedUpTo(segs, n - 1) \o " " \o segs[n].text

\* C8: for output format json the result holds the overall text and one
\* entry per segment of the inference result, in order, with ids 0,1,2,...
\* and that segment's start, end and text, also when the inference result
\* can be traversed only once.
C8_JsonHasEverySegment ==
    \A r \in AsrReqs :
        (/\ areqs[r].kind = "asr"
         /\ areqs[r].pc = "done"
         /\ areqs[r].code = 200
         /\ areqs[r].output = "json")
        => LET res == areqs[r].result
               segs == areqs[r].segs
           IN  /\ res.text = SpaceJoinedUpTo(segs, Len(segs))
               /\ Len(res.segments) = Len(segs)
               /\ \A i \in 1..Len(segs) :
                     /\ res.segments[i].id = i - 1
                     /\ res.segments[i].start = segs[i].start
                     /\ res.segments[i].end = segs[i].end
                     /\ res.segments[i].text = segs[i].text

\* C9: for output format txt, and for every format other than json, vtt and
\* srt (tsv), the result is the plain-text form: the segment texts joined by
\* single spaces in segment order.
C9_PlainTextIsSpaceJoined ==
    \A r \in AsrReqs :
        (/\ areqs[r].kind = "asr"
         /\ areqs[r].pc = "done"
         /\ areqs[r].code = 200
         /\ areqs[r].output \notin {"json", "vtt", "srt"})
        => /\ DOMAIN areqs[r].result = {"text"}
           /\ areqs[r].result.text
                = SpaceJoinedUpTo(areqs[r].segs, Len(areqs[r].segs))

\* a tsv request answered from a one-shot inference result of two different
\* segments
C9_Witness ==
    \E r \in AsrReqs :
        /\ areqs[r].kind = "asr"
        /\ areqs[r].code = 200
        /\ areqs[r].output = "tsv"
        /\ areqs[r].oneShot
        /\ Len(areqs[r].segs) = 2
        /\ areqs[r].segs[1] # areqs[r].segs[2]

\* C11: the device of the ASR service is chosen by the probe in __init__ and
\* changes afterwards only from cuda to cpu (with float32), and only while
\* _load_model runs at startup; once startup has ended no /asr,
\* /detect-language, /health or / request, and no later step, changes the
\* device or the compute type.
C11_DeviceFallbackOneWayAtStartup ==
    [][/\ (/\ whisper_service.device # "unset"
            /\ whisper_service'.device # whisper_service.device)
           => /\ aphase = "loading"
              /\ whisper_service.device = "cuda"
              /\ whisper_service'.device = "cpu"
              /\ whisper_service'.compute_type = "float32"
       /\ whisper_service.device = "unset" => aphase = "import"
       /\ aphase \notin {"import", "loading"}
           => /\ whisper_service'.device = whisper_service.device
              /\ whisper_service'.compute_type = whisper_service.compute_type
       /\ whisper_service'.device = "cuda" => whisper_service'.compute_type = "float16"
       /\ whisper_service'.device = "cpu" => whisper_service'.compute_type = "float32"]_vars

\* the accelerator passed the probe, its model load fell back to the cpu, and
\* a transcription was served afterwards
C11_Witness ==
    /\ cuda_available
    /\ Len(asr_log) >= 2
    /\ asr_log[1] = "CUDA available - using GPU"
    /\ \E i \in 1..Len(asr_log) : asr_log[i] = "GPU model failed, falling back to CPU"
    /\ whisper_service.device = "cpu"
    /\ \E r \in AsrReqs : areqs[r].kind = "asr" /\ areqs[r].code = 200

\* the device the startup of the ASR service selected, read off its log: cuda
\* when there is an accelerator, the probe passed and the accelerator model
\* load did not fail; cpu otherwise
SelectedAtStartup ==
    IF /\ cuda_available
       /\ \A i \in 1..Len(asr_log) :
             asr_log[i] \notin {"CUDA test failed", "GPU model failed, falling back to CPU"}
    THEN "cuda" ELSE "cpu"

\* C16: a /health response of the TTS service reports as voice_models_loaded
\* the number of voices in the cache at the time of the response, and a
\* /health response of the ASR service reports the device selected at
\* startup: cpu whenever there is no accelerator, the probe failed or the
\* accelerator model load failed, cuda otherwise.
C16_HealthReportsCacheAndDevice ==
    [][/\ \A r \in Reqs :
            (procs[r].pc = "idle" /\ procs'[r].kind = "health")
            => /\ procs'[r].code = 200
               /\ procs'[r].count = Cardinality(DOMAIN voice_models')
               /\ voice_models' = voice_models
       /\ \A r \in AsrReqs :
            (areqs[r].pc = "idle" /\ areqs'[r].kind = "health")
            => /\ areqs'[r].code = 200
               /\ areqs'[r].result.device = whisper_service'.device
               /\ areqs'[r].result.device = SelectedAtStartup
               /\ whisper_service' = whisper_service
               /\ asr_log' = asr_log]_vars

\* the ASR service reported cpu on a machine with an accelerator that passed
\* the probe and then failed to load the model
C16_Witness ==
    \E r \in AsrReqs :
        /\ areqs[r].kind = "health"
        /\ areqs[r].code = 200
        /\ areqs[r].result.device = "cpu"
        /\ areqs[r].result.gpu_available
        /\ \E i \in 1..Len(asr_log) : asr_log[i] = "CPU fallback model loaded successfully"

(***************************************************************************)
(* Properties of the timestamp renderers                                   *)
(***************************************************************************)
\* the hour, minute, second and millisecond fields of a whole number of
\* milliseconds, with the separator before the milliseconds
TimeFields(ms, sep) ==
    Pad(ms \div 3600000, 2) \o ":" \o Pad((ms \div 60000) % 60, 2) \o ":"
    \o Pad((ms \div 1000) % 60, 2) \o sep \o Pad(ms % 1000, 3)

\* C10: for a time of a whole number of milliseconds the VTT renderer gives
\* HH:MM:SS.mmm and the SRT renderer HH:MM:SS,mmm with the same fields, the
\* fields of that time; 3661.5 s gives 01:01:01.500 and 01:01:01,500.
C10_RenderersAgreeOnFields ==
    (vtt_out # "" /\ srt_out # "")
    => /\ vtt_out = TimeFields(tin, ".")
       /\ srt_out = TimeFields(tin, ",")
       /\ tin = 3661500 => (vtt_out = "01:01:01.500" /\ srt_out = "01:01:01,500")

====
